---- MODULE Spec2Model ----
(***************************************************************************)
(* Sparse LU factorization (Gilbert-Peierls): the symbolic depth-first     *)
(* search ludfs (src/ludfs.go) and the column finalization lucopy          *)
(* (src/lucopy.go), driven column by column for jcol = 1..N.               *)
(*                                                                         *)
(* Row and column identities are 1-based, 0 means "unassigned"; every      *)
(* array is modelled as a function on its identities (the `off` of ludfs   *)
(* is the representation offset of a 0-based container).                   *)
(* Floating point values are modelled exactly: dense holds integers (the   *)
(* entries of A), lu holds rationals <<num, den>> (an entry of A, possibly *)
(* divided by the pivot).  pthresh and dthresh are rationals k / ThreshDen.*)
(***************************************************************************)
EXTENDS Integers, Sequences, FiniteSets, TLC

\* ---------------------------------------------------------------- bounds
\* Matrix dimension (rows = columns).
N == 3
\* Entries of A have magnitude 0..MaxVal (0 is an explicit zero), the even
\* magnitudes negative.
MaxVal == 2
\* pthresh, dthresh are multiples of 1/ThreshDen.
ThreshDen == 2
\* nzcount (keepCount) is drawn from 0..MaxKeep.
MaxKeep == 1
\* A is sparse: it holds at most MaxNnz entries.
MaxNnz == 5

Rows == 1..N
Cols == 1..N
Vals == {IF v % 2 = 0 THEN -v ELSE v : v \in 0..MaxVal}
\* Capacity of lu / lurow: a column never holds more than N entries.
MaxLU == N * N
LUIdx == 1..MaxLU

VARIABLES
  \* driver position
  jcol, phase,
  \* configuration of the factorization
  pivot, pthresh, dthresh, nzcount, cperm,
  \* column cperm[jcol] of A: a, arow hold its entries (indices rebased to 1),
  \* acolst the column starts; nnz counts the entries of the columns read
  a, arow, acolst, nnz,
  \* the factor structure
  lastlu, lu, lurow, lcolst, ucolst, rperm,
  \* work arrays
  dense, found, parent, child, pattern,
  \* result of the last call
  zpivot, err,
  \* history: the operation that ran last, the state it started from, and
  \* the number of times it assigned found[i] = jcol
  last, pre, nset

vars == <<jcol, phase, pivot, pthresh, dthresh, nzcount, cperm, a, arow, acolst, nnz,
          lastlu, lu, lurow, lcolst, ucolst, rperm, dense, found, parent, child,
          pattern, zpivot, err, last, pre, nset>>

\* ------------------------------------------------------------ arithmetic
Abs(x) == IF x < 0 THEN -x ELSE x

\* lu values: rationals <<num, den>>.
Val(x) == <<x, 1>>
IsZero(q) == q[1] = 0
Div(q, u) == <<q[1] * u[2], q[2] * u[1]>>

\* ---------------------------------------------------------------- ludfs
\* The search state of ludfs: the arrays it modifies, the current vertex
\* krow and the position chdptr of its next child.  rperm, ucolst and the
\* closed columns of lurow are only read.

\* A(krow,jcol) starts a search: krow is pivoted, not yet found in this
\* column, and its value is not zero (ludfs.go 87-95).
IsRoot(jc, s, krow) ==
  /\ rperm[krow] # 0
  /\ s.found[krow] # jc
  /\ s.dense[krow] # 0

\* found[k] = jcol, counting the assignment.
MarkFound(jc, s, k) ==
  [s EXCEPT !.found[k] = jc, !.nset[k] = @ + 1]

\* Mutation of SkipChild: the search never steps forward.
SkipChildAlways(jc, s, nextk) ==
  TRUE

\* nextk is skipped as a child: not pivoted, or already found (116-121).
SkipChild(jc, s, nextk) ==
  \/ rperm[nextk] = 0
  \/ s.found[nextk] = jc

\* l300: take a step forward to nextk (126-130).
StepForward(jc, s, nextk) ==
  LET s1 == [s EXCEPT !.child[s.krow] = s.chdptr, !.parent[nextk] = s.krow]
      s2 == MarkFound(jc, [s1 EXCEPT !.krow = nextk], nextk)
  IN  [s2 EXCEPT !.chdptr = lcolst[rperm[nextk]]]

\* l400: allocate space for U(rperm(krow),jcol) (138-139).
Emit(s) ==
  [s EXCEPT !.lastlu = s.lastlu + 1, !.lurow[s.lastlu + 1] = s.krow]

\* l100/l200/l400: the main depth-first search loop, until a step back
\* leads to 0.
RECURSIVE DfsLoop(_, _)
DfsLoop(jc, s) ==
  LET chdend == ucolst[rperm[s.krow] + 1] IN
  IF s.chdptr >= chdend
  THEN LET s1 == Emit(s)
           k  == s1.parent[s.krow]
       IN  IF k = 0 THEN s1
           ELSE DfsLoop(jc, [s1 EXCEPT !.krow = k, !.chdptr = s1.child[k]])
  ELSE LET nextk == s.lurow[s.chdptr]
           s1    == [s EXCEPT !.chdptr = s.chdptr + 1]
       IN  IF SkipChild(jc, s1, nextk) THEN DfsLoop(jc, s1)
           ELSE DfsLoop(jc, StepForward(jc, s1, nextk))

\* The loop over the nonzeros of column cperm[jcol] of A (80-150).
RECURSIVE DfsColumn(_, _, _, _, _)
DfsColumn(jc, A, s, nzaptr, nzaend) ==
  IF nzaptr > nzaend THEN s
  ELSE LET krow == A.arow[nzaptr]
           s1   == [s EXCEPT !.dense[krow] = A.a[nzaptr]]
       IN  IF ~IsRoot(jc, s1, krow)
           THEN DfsColumn(jc, A, s1, nzaptr + 1, nzaend)
           ELSE LET s2 == MarkFound(jc, [s1 EXCEPT !.parent[krow] = 0], krow)
                    s3 == [s2 EXCEPT !.krow = krow,
                                     !.chdptr = lcolst[rperm[krow]]]
                IN  DfsColumn(jc, A, DfsLoop(jc, s3), nzaptr + 1, nzaend)

\* Mutation of BelowDiagonal: every row of the column of A is taken as
\* below the diagonal.
BelowDiagonalAlways(krow) ==
  TRUE

\* krow has not been used as a pivot: it is still below the diagonal (159).
BelowDiagonal(krow) ==
  rperm[krow] = 0

\* Allocate space for the non-fill entries of column jcol of L (157-165).
RECURSIVE AllocL(_, _, _, _, _)
AllocL(jc, A, s, nzaptr, nzaend) ==
  IF nzaptr > nzaend THEN s
  ELSE LET krow == A.arow[nzaptr] IN
       IF ~BelowDiagonal(krow) THEN AllocL(jc, A, s, nzaptr + 1, nzaend)
       ELSE LET s1 == MarkFound(jc, s, krow)
            IN  AllocL(jc, A, [s1 EXCEPT !.lastlu = s1.lastlu + 1,
                                      !.lurow[s1.lastlu + 1] = krow],
                       nzaptr + 1, nzaend)

\* ludfs(jcol, a, arow, acolst, ...) with A = [a, arow, acolst]: the arrays
\* on return, and err ("" for nil).
ludfs(jc, A) ==
  LET nzast  == A.acolst[cperm[jc]]
      nzaend == A.acolst[cperm[jc] + 1]
      s0 == [lastlu |-> lastlu, lurow |-> lurow, lcolstj |-> lcolst[jc],
             dense |-> dense, found |-> found, parent |-> parent,
             child |-> child, nset |-> [i \in Rows |-> 0],
             krow |-> 0, chdptr |-> 0, err |-> ""]
  IN  IF nzaend < nzast THEN [s0 EXCEPT !.err = "MalformedInput"]
      ELSE LET s1 == DfsColumn(jc, A, s0, nzast, nzaend - 1)
               s2 == [s1 EXCEPT !.lcolstj = s1.lastlu + 1]
           IN  AllocL(jc, A, s2, nzast, nzaend - 1)

\* --------------------------------------------------------------- lucopy
\* The copy state of lucopy: c = [lurow, lu, dense, nzcpy, ujjptr].
\* Thresholds (udthreshabs, ldthreshabs, pthresh*maxpiv) are kept
\* multiplied by ThreshDen, and so are the magnitudes compared with them.

\* The entry at nzptr is kept: copied from dense to position nzcpy (81-84,
\* 99-102, 189-192, 287-290).
KeepEntry(c, irow) ==
  [c EXCEPT !.lurow[c.nzcpy] = irow, !.lu[c.nzcpy] = Val(c.dense[irow]),
            !.dense[irow] = 0, !.nzcpy = c.nzcpy + 1]

\* Mutation of DropEntry: a dropped entry stays in dense.
DropEntryNotZeroed(c, irow) ==
  c

\* The entry is thrown out (86, 104, 194, 281).
DropEntry(c, irow) ==
  [c EXCEPT !.dense[irow] = 0]

\* No pivoting, U part: in the pattern, or the row of the diagonal (80).
KeepU0(jc, pat, irow) ==
  pat[irow] # 0 \/ irow = cperm[jc]

\* No pivoting, L part: in the pattern (98).
KeepL0(pat, irow) ==
  pat[irow] # 0 \/ pat[irow] = 2

\* No pivoting, L part: irow is the diagonal (95).
IsDiag0(jc, pat, irow) ==
  pat[irow] = 2

\* No pivoting: copy the U part (77-88).
RECURSIVE CopyU0(_, _, _, _, _)
CopyU0(jc, pat, c, nzptr, nzend) ==
  IF nzptr > nzend THEN c
  ELSE LET irow == c.lurow[nzptr] IN
       CopyU0(jc, pat,
              IF KeepU0(jc, pat, irow) THEN KeepEntry(c, irow)
              ELSE DropEntry(c, irow),
              nzptr + 1, nzend)

\* No pivoting: copy the L part, searching for the diagonal (92-106).
RECURSIVE CopyL0(_, _, _, _, _)
CopyL0(jc, pat, c, nzptr, nzend) ==
  IF nzptr > nzend THEN c
  ELSE LET irow == c.lurow[nzptr]
           c1   == IF IsDiag0(jc, pat, irow)
                   THEN [c EXCEPT !.ujjptr = c.nzcpy] ELSE c
       IN  CopyL0(jc, pat,
                  IF KeepL0(pat, irow) THEN KeepEntry(c1, irow)
                  ELSE DropEntry(c1, irow),
                  nzptr + 1, nzend)

\* The maximum magnitude of dense over lurow[nzptr..nzend], from -1.0
\* (129-136, 139-146).
RECURSIVE MaxMagnitude(_, _, _, _)
MaxMagnitude(c, nzptr, nzend, maxpivglb) ==
  IF nzptr > nzend THEN maxpivglb
  ELSE LET utemp == Abs(c.dense[c.lurow[nzptr]]) IN
       MaxMagnitude(c, nzptr + 1, nzend,
                    IF utemp > maxpivglb THEN utemp ELSE maxpivglb)

\* twork[1..i]: the magnitudes of dense over lurow[nzptr..nzend] (149-155,
\* 164-170).
RECURSIVE FillTwork(_, _, _, _)
FillTwork(c, nzptr, nzend, twork) ==
  IF nzptr > nzend THEN twork
  ELSE FillTwork(c, nzptr + 1, nzend,
                 Append(twork, Abs(c.dense[c.lurow[nzptr]])))

\* dordstat(n, k, x, &kth, &info): the k-th smallest of x[1..n].
dordstat(n, k, x) ==
  CHOOSE v \in {x[i] : i \in 1..n} :
    /\ Cardinality({i \in 1..n : x[i] < v}) < k
    /\ Cardinality({i \in 1..n : x[i] <= v}) >= k

\* The drop threshold of a half-column lurow[nzst..nzend], times ThreshDen
\* (128-179).
DropThreshold(c, nzst, nzend) ==
  IF nzcount <= 0
  THEN dthresh * MaxMagnitude(c, nzst, nzend, -1)
  ELSE LET twork == FillTwork(c, nzst, nzend, <<>>)
           i     == Len(twork)
       IN  IF nzcount < i
           THEN ThreshDen * dordstat(i, i - nzcount + 1, twork)
           ELSE 0

\* Pivoting, U part: in the pattern, or not below the drop threshold (188).
KeepU(pat, c, irow, udthreshabs) ==
  pat[irow] # 0 \/ ThreshDen * Abs(c.dense[irow]) >= udthreshabs

\* Pivoting: copy the U part (182-197).
RECURSIVE CopyU(_, _, _, _, _)
CopyU(pat, c, nzptr, nzend, udthreshabs) ==
  IF nzptr > nzend THEN c
  ELSE LET irow == c.lurow[nzptr] IN
       CopyU(pat,
             IF KeepU(pat, c, irow, udthreshabs) THEN KeepEntry(c, irow)
             ELSE DropEntry(c, irow),
             nzptr + 1, nzend, udthreshabs)

\* Pivoting: scan the L part for the pattern diagonal (diagptr, diagpiv)
\* and the maximum magnitude element (ujjptr, maxpiv) (216-243).
\* p = [diagptr, diagpiv, ujjptr, maxpiv, maxpivglb].
RECURSIVE ScanL(_, _, _, _, _)
ScanL(pat, c, nzptr, nzend, p) ==
  IF nzptr > nzend THEN p
  ELSE LET irow  == c.lurow[nzptr]
           utemp == Abs(c.dense[irow])
           p1 == IF pat[irow] = 2
                 THEN [p EXCEPT !.diagptr = irow, !.diagpiv = utemp] ELSE p
           p2 == IF utemp > p1.maxpiv
                 THEN [p1 EXCEPT !.ujjptr = irow, !.maxpiv = utemp] ELSE p1
           p3 == IF utemp > p2.maxpivglb
                 THEN [p2 EXCEPT !.maxpivglb = utemp] ELSE p2
       IN  ScanL(pat, c, nzptr + 1, nzend, p3)

\* Mutation of DiagAcceptable: the pattern diagonal is taken whatever its
\* magnitude.
DiagAlwaysAcceptable(p) ==
  p.diagptr # 0

\* Threshold pivoting: the pattern diagonal is acceptable (246).
DiagAcceptable(p) ==
  p.diagptr # 0 /\ ThreshDen * p.diagpiv >= pthresh * p.maxpiv

\* The row chosen as the diagonal (246-258).
ChoosePivot(p) ==
  IF DiagAcceptable(p) THEN p.diagptr ELSE p.ujjptr

\* Mutation of DropL: an entry equal to the drop threshold is dropped too.
DropLInclusive(pat, c, irow, diagptr, ldthreshabs) ==
  /\ pat[irow] = 0
  /\ irow # diagptr
  /\ ThreshDen * Abs(c.dense[irow]) <= ldthreshabs

\* Pivoting, L part: out of the pattern, not the diagonal, and below the
\* drop threshold (280).
DropL(pat, c, irow, diagptr, ldthreshabs) ==
  /\ pat[irow] = 0
  /\ irow # diagptr
  /\ ThreshDen * Abs(c.dense[irow]) < ldthreshabs

\* Pivoting: copy the L part, recording the position of the diagonal
\* (261-292).
RECURSIVE CopyL(_, _, _, _, _, _)
CopyL(pat, c, nzptr, nzend, diagptr, ldthreshabs) ==
  IF nzptr > nzend THEN c
  ELSE LET irow == c.lurow[nzptr] IN
       CopyL(pat,
             IF DropL(pat, c, irow, diagptr, ldthreshabs)
             THEN DropEntry(c, irow)
             ELSE KeepEntry(IF irow = diagptr
                            THEN [c EXCEPT !.ujjptr = c.nzcpy] ELSE c, irow),
             nzptr + 1, nzend, diagptr, ldthreshabs)

\* Divide column jcol of L by U(jcol,jcol) (328-336).
RECURSIVE DivideL(_, _, _, _)
DivideL(luv, nzptr, nzend, ujj) ==
  IF nzptr > nzend THEN luv
  ELSE DivideL([luv EXCEPT ![nzptr] = Div(luv[nzptr], ujj)],
               nzptr + 1, nzend, ujj)

\* Mutation of ZeroPivot: the test for a zero pivot is missing.
ZeroPivotUnchecked(ujj) ==
  FALSE

\* The pivot value is numerically zero (309).
ZeroPivot(ujj) ==
  IsZero(ujj)

\* Mutation of RecordPivot: the permutation is recorded inverted.
RecordPivotInverse(r, pivrow, jc) ==
  [r EXCEPT !.rperm[jc] = pivrow, !.zpivot = pivrow]

\* Record the pivot in P and return it (321, 338).
RecordPivot(r, pivrow, jc) ==
  [r EXCEPT !.rperm[pivrow] = jc, !.zpivot = pivrow]

\* The diagonal element has been found: swap it from L into U, record the
\* pivot in P and divide the column of L (300-339).
\* r = [lastlu, lu, lurow, lcolstj, ucolstj1, rperm, dense, zpivot, err].
SwapAndDivide(jc, r, ujjptr) ==
  IF ujjptr = 0 THEN [r EXCEPT !.zpivot = -1, !.err = "NoPivotFound"]
  ELSE LET pivrow == r.lurow[ujjptr]
           ujj    == r.lu[ujjptr]
       IN  IF ZeroPivot(ujj)
           THEN [r EXCEPT !.zpivot = -1, !.err = "NumericallySingular"]
           ELSE LET dptr == r.lcolstj
                    lurow1 == [r.lurow EXCEPT ![ujjptr] = r.lurow[dptr],
                                              ![dptr] = pivrow]
                    lu1    == [r.lu EXCEPT ![ujjptr] = r.lu[dptr],
                                           ![dptr] = ujj]
                IN  RecordPivot(
                      [r EXCEPT !.lurow = lurow1,
                                !.lu = DivideL(lu1, dptr + 1, r.ucolstj1 - 1,
                                               ujj),
                                !.lcolstj = dptr + 1],
                      pivrow, jc)

\* Mutation of CloseColumn: lastlu is left at the end of the column as
\* ludfs allocated it.
CloseColumnKeepLastlu(r, c, lastu) ==
  [r EXCEPT !.lurow = c.lurow, !.lu = c.lu, !.dense = c.dense,
            !.lcolstj = lastu + 1, !.ucolstj1 = c.nzcpy]

\* The arrays after the copy loops: lcolst[jcol], ucolst[jcol+1] and lastlu
\* are reset to the compacted column (108-110, 294-296).
CloseColumn(r, c, lastu) ==
  [r EXCEPT !.lurow = c.lurow, !.lu = c.lu, !.dense = c.dense,
            !.lcolstj = lastu + 1, !.ucolstj1 = c.nzcpy,
            !.lastlu = c.nzcpy - 1]

\* pivot <= 0: no pivoting (66-115).
lucopyNoPivot(jc, pat, r, c0) ==
  IF ucolst[jc + 1] - 1 < ucolst[jc]
  THEN [r EXCEPT !.zpivot = -1, !.err = "EmptyColumn"]
  ELSE LET cu == CopyU0(jc, pat, c0, ucolst[jc], lcolst[jc] - 1)
           lastu == cu.nzcpy - 1
           cl == CopyL0(jc, pat, cu, lcolst[jc], ucolst[jc + 1] - 1)
           r1 == CloseColumn(r, cl, lastu)
       IN  IF pivot = -1 THEN [r1 EXCEPT !.zpivot = 0]
           ELSE SwapAndDivide(jc, r1, cl.ujjptr)

\* pivot > 0: partial and threshold pivoting (117-298).
lucopyPivot(jc, pat, r, c0) ==
  IF ucolst[jc + 1] - 1 < lcolst[jc]
  THEN [r EXCEPT !.zpivot = -1, !.err = "EmptyColumn"]
  ELSE LET udthreshabs == DropThreshold(c0, ucolst[jc], lcolst[jc] - 1)
           ldthreshabs == DropThreshold(c0, lcolst[jc], ucolst[jc + 1] - 1)
           cu == CopyU(pat, c0, ucolst[jc], lcolst[jc] - 1, udthreshabs)
           lastu == cu.nzcpy - 1
           p  == ScanL(pat, cu, lcolst[jc], ucolst[jc + 1] - 1,
                       [diagptr |-> 0, diagpiv |-> 0, ujjptr |-> 0,
                        maxpiv |-> -1, maxpivglb |-> -1])
           diagptr == ChoosePivot(p)
           cl == CopyL(pat, [cu EXCEPT !.ujjptr = 0], lcolst[jc],
                       ucolst[jc + 1] - 1, diagptr, ldthreshabs)
       IN  SwapAndDivide(jc, CloseColumn(r, cl, lastu), cl.ujjptr)

\* lucopy(pivot, pthresh, dthresh, nzcount, jcol, ...) with pattern pat: the
\* arrays on return, zpivot and err ("" for nil).
lucopy(jc, pat) ==
  LET r  == [lastlu |-> lastlu, lu |-> lu, lurow |-> lurow,
             lcolstj |-> lcolst[jc], ucolstj1 |-> ucolst[jc + 1],
             rperm |-> rperm, dense |-> dense, zpivot |-> 0, err |-> ""]
      c0 == [lurow |-> lurow, lu |-> lu, dense |-> dense,
             nzcpy |-> ucolst[jc], ujjptr |-> 0]
  IN  IF pivot <= 0 THEN lucopyNoPivot(jc, pat, r, c0)
      ELSE lucopyPivot(jc, pat, r, c0)

\* --------------------------------------------------------------- driver
\* The column permutations tried: the identity and the reversal.
ColPerms == {[j \in Cols |-> j], [j \in Cols |-> N + 1 - j]}

\* The row lists of a column of A: distinct rows, in increasing order.
RECURSIVE SeqOfSet(_)
SeqOfSet(S) ==
  IF S = {} THEN <<>>
  ELSE LET m == CHOOSE x \in S : \A y \in S : x <= y
       IN  <<m>> \o SeqOfSet(S \ {m})

ColumnRows == {SeqOfSet(S) : S \in SUBSET Rows}

\* Column c of A as ludfs sees it: its row list rs and values vs, stored
\* from index 1 of arow and a; acolst[c] and acolst[c+1] delimit it.
ColumnOfA(c, rs, vs) ==
  [a |-> vs, arow |-> rs,
   acolst |-> [k \in 1..(N + 1) |->
                 IF k = c THEN 1 ELSE IF k = c + 1 THEN 1 + Len(rs) ELSE 0]]

\* A column whose range in acolst has negative length.
MalformedColumnOfA(c) ==
  [a |-> <<>>, arow |-> <<>>,
   acolst |-> [k \in 1..(N + 1) |-> IF k = c THEN 1 ELSE IF k = c + 1 THEN -1 ELSE 0]]

Snapshot ==
  [jcol |-> jcol, lastlu |-> lastlu, rperm |-> rperm, dense |-> dense,
   lurow |-> lurow, lu |-> lu, lcolst |-> lcolst, ucolst |-> ucolst,
   found |-> found]

Init ==
  /\ jcol = 1
  /\ phase = "dfs"
  /\ pivot \in {-1, 0, 1, 2}
  /\ pthresh \in 1..ThreshDen
  /\ dthresh \in 0..(ThreshDen - 1)
  /\ nzcount \in 0..MaxKeep
  \* parameters a mode does not read are held at one value
  /\ pivot <= 0 => (pthresh = ThreshDen /\ dthresh = 0 /\ nzcount = 0)
  /\ nzcount > 0 => dthresh = 0
  \* cperm is compared with a row only when pivot = 0 (U part, line 80)
  /\ cperm \in ColPerms
  /\ pivot # 0 => cperm = [j \in Cols |-> j]
  /\ a = <<>>
  /\ arow = <<>>
  /\ acolst = [k \in 1..(N + 1) |-> 0]
  /\ nnz = 0
  /\ lastlu = 0
  /\ lu = [k \in LUIdx |-> Val(0)]
  /\ lurow = [k \in LUIdx |-> 0]
  /\ lcolst = [j \in Cols |-> 0]
  /\ ucolst = [j \in 1..(N + 1) |-> IF j = 1 THEN 1 ELSE 0]
  /\ rperm = [i \in Rows |-> 0]
  /\ dense = [i \in Rows |-> 0]
  /\ found = [i \in Rows |-> 0]
  /\ parent = [i \in Rows |-> 0]
  /\ child = [i \in Rows |-> 0]
  /\ pattern = [i \in Rows |-> 0]
  /\ zpivot = 0
  /\ err = ""
  /\ last = "init"
  /\ pre = Snapshot
  /\ nset = [i \in Rows |-> 0]

\* The driver calls ludfs for column jcol of PA, on the column A it reads
\* from the matrix, and on success closes the column: ucolst[jcol+1] is the
\* first free index.
CallLudfs(A) ==
  LET s == ludfs(jcol, A) IN
  /\ a' = A.a
  /\ arow' = A.arow
  /\ acolst' = A.acolst
  /\ nnz' = nnz + Len(A.arow)
  /\ lastlu' = s.lastlu
  /\ lurow' = s.lurow
  /\ lcolst' = [lcolst EXCEPT ![jcol] = s.lcolstj]
  /\ ucolst' = IF s.err = "" THEN [ucolst EXCEPT ![jcol + 1] = s.lastlu + 1]
               ELSE ucolst
  /\ dense' = s.dense
  /\ found' = s.found
  /\ parent' = s.parent
  /\ child' = s.child
  /\ nset' = s.nset
  /\ err' = s.err
  /\ zpivot' = 0
  /\ phase' = IF s.err = "" THEN "copy" ELSE "failed"
  /\ last' = "ludfs"
  /\ pre' = Snapshot
  /\ pattern' = [i \in Rows |-> 0]
  /\ UNCHANGED <<jcol, pivot, pthresh, dthresh, nzcount, cperm, lu, rperm>>

SymbolicDFS ==
  /\ phase = "dfs"
  /\ \E rs \in {q \in ColumnRows : nnz + Len(q) <= MaxNnz} :
       \E vs \in [1..Len(rs) -> Vals] :
         CallLudfs(ColumnOfA(cperm[jcol], rs, vs))

SymbolicDFSMalformed ==
  /\ phase = "dfs"
  /\ CallLudfs(MalformedColumnOfA(cperm[jcol]))

\* The rows of column jcol of the factor structure on entry to lucopy.
ColumnRowsOfLU ==
  {lurow[k] : k \in ucolst[jcol]..(ucolst[jcol + 1] - 1)}

\* The patterns lucopy can tell apart: it reads pattern only at the rows of
\* the column, the other rows are left 0.
ColumnPatterns ==
  {pat \in [Rows -> 0..2] : \A i \in Rows \ ColumnRowsOfLU : pat[i] = 0}

\* The driver calls lucopy for column jcol with the pattern of the column,
\* and goes on to the next column unless the call failed.
ColumnFinalize ==
  /\ phase = "copy"
  /\ \E pat \in ColumnPatterns :
       LET r == lucopy(jcol, pat) IN
       /\ pattern' = pat
       /\ lastlu' = r.lastlu
       /\ lu' = r.lu
       /\ lurow' = r.lurow
       /\ lcolst' = [lcolst EXCEPT ![jcol] = r.lcolstj]
       /\ ucolst' = [ucolst EXCEPT ![jcol + 1] = r.ucolstj1]
       /\ rperm' = r.rperm
       /\ dense' = r.dense
       /\ zpivot' = r.zpivot
       /\ err' = r.err
       /\ jcol' = IF r.err = "" THEN jcol + 1 ELSE jcol
       /\ phase' = IF r.err # "" THEN "failed"
                   ELSE IF jcol = N THEN "done" ELSE "dfs"
  /\ last' = "lucopy"
  /\ pre' = Snapshot
  /\ UNCHANGED <<pivot, pthresh, dthresh, nzcount, cperm, a, arow, acolst,
                 nnz, found, parent, child, nset>>

Next ==
  \/ SymbolicDFS
  \/ SymbolicDFSMalformed
  \/ ColumnFinalize

\* ------------------------------------------------------- specifications
\* Every pivot mode, cperm the identity.  In the pivoting modes one drop
\* rule is active (without one the column is copied as with a pattern that
\* marks every row): partial pivoting runs with the drop threshold,
\* threshold pivoting with the rank limit; the pivot threshold is the
\* smallest one.
IdentityPerm == [j \in Cols |-> j]

InitModes ==
  /\ Init
  /\ cperm = IdentityPerm
  /\ pivot > 0 => pthresh = 1
  /\ pivot = 1 => dthresh > 0
  /\ pivot = 2 => nzcount > 0

Spec == InitModes /\ [][Next]_vars

\* No pivoting, both column permutations.
InitNoPivot == Init /\ pivot = 0

SpecNoPivot == InitNoPivot /\ [][Next]_vars

\* Rank-limited fill: nzcount > 0 in both pivoting modes, every pivot
\* threshold.
InitRank == Init /\ pivot > 0 /\ nzcount > 0

SpecRank == InitRank /\ [][Next]_vars

\* ------------------------------------------------ vocabulary of the claims
\* The last call was lucopy / ludfs for column pre.jcol, started in the
\* state pre; Succeeded: it returned a nil error.
Copied == last = "lucopy"
Searched == last = "ludfs"
Succeeded == err = ""

\* The rows of the U part and of the L part of the column on entry to
\* lucopy, and the magnitude of a row in the dense column on entry.
UPartOnEntry ==
  {pre.lurow[k] : k \in pre.ucolst[pre.jcol]..(pre.lcolst[pre.jcol] - 1)}
LPartOnEntry ==
  {pre.lurow[k] : k \in pre.lcolst[pre.jcol]..(pre.ucolst[pre.jcol + 1] - 1)}
Magnitude(i) == Abs(pre.dense[i])
MaxOf(S) == CHOOSE m \in S : \A x \in S : x <= m

\* The rows the compacted column holds on return from lucopy.
RowsKept ==
  {lurow[k] : k \in pre.ucolst[pre.jcol]..(ucolst[pre.jcol + 1] - 1)}

\* ------------------------------------------------------------------ C1
\* C1: in a run with pivot mode 0, 1 or 2, a successful ColumnFinalize(j)
\* returns a row p with rperm[p] = 0 before the call, sets rperm[p] = j and
\* changes no other entry of rperm; exactly one row maps to each rank of a
\* finished column, and no row maps to any other rank.
C1_PivotRecordedOnce ==
  pivot \in {0, 1, 2} =>
    /\ (Copied /\ Succeeded) =>
         /\ zpivot \in Rows
         /\ pre.rperm[zpivot] = 0
         /\ rperm = [pre.rperm EXCEPT ![zpivot] = pre.jcol]
    /\ \A rank \in 1..(jcol - 1) :
         Cardinality({i \in Rows : rperm[i] = rank}) = 1
    /\ \A i \in Rows : rperm[i] \in 0..(jcol - 1)

\* A third column has been finalized after two pivots.
C1_Witness ==
  /\ pivot \in {0, 1, 2}
  /\ Copied /\ Succeeded
  /\ pre.jcol = 3
  /\ Cardinality({i \in Rows : pre.rperm[i] # 0}) = 2
  /\ rperm[zpivot] = 3

\* ------------------------------------------------------------------ C8
\* C8: starting from dense = 0, every row ludfs leaves nonzero in dense
\* lies in lurow[ucolst[j]..ucolst[j+1]-1], and after a successful
\* ColumnFinalize(j), in any pivot mode, dense is zero again at every row.
C8_DenseDrained ==
  /\ (Searched /\ Succeeded) =>
       /\ \A i \in Rows : pre.dense[i] = 0
       /\ \A i \in Rows :
            dense[i] # 0 =>
              \E k \in ucolst[jcol]..(ucolst[jcol + 1] - 1) : lurow[k] = i
  /\ (Copied /\ Succeeded) => \A i \in Rows : dense[i] = 0

\* lucopy succeeded on a column that held a nonzero value in a row it
\* dropped and in a row it kept.
C8_Witness ==
  /\ Copied /\ Succeeded
  /\ \E i \in (UPartOnEntry \cup LPartOnEntry) \ RowsKept : pre.dense[i] # 0
  /\ \E i \in RowsKept : pre.dense[i] # 0

\* ------------------------------------------------------------------ C9
\* C9 as stated: no call of SymbolicDFS or ColumnFinalize leaves lastlu
\* lower than it was when the call started.
C9_NeverLowered ==
  lastlu >= pre.lastlu

\* C9 as amended: lastlu never decreases from one column to the next.
\* SymbolicDFS(j) starts with lastlu = ucolst[j] - 1 and never lowers it;
\* ColumnFinalize(j) may lower it, to the end of the compacted column, but
\* not below ucolst[j] - 1, the value it had before SymbolicDFS(j).
C9_GrowsByColumn ==
  /\ phase = "dfs" => lastlu = ucolst[jcol] - 1
  /\ Searched => (lastlu >= pre.lastlu /\ pre.lastlu = pre.ucolst[pre.jcol] - 1)
  /\ Copied =>
       /\ lastlu >= pre.ucolst[pre.jcol] - 1
       /\ lastlu <= pre.lastlu
       /\ (err # "EmptyColumn") => lastlu = ucolst[pre.jcol + 1] - 1

\* lucopy dropped an entry of a third column and lowered lastlu.
C9_Witness ==
  /\ Copied /\ Succeeded
  /\ pre.jcol = 3
  /\ lastlu < pre.lastlu
  /\ lastlu > pre.ucolst[pre.jcol] - 1

\* ----------------------------------------------------------------- C10
\* The rows lucopy can take as the pivot: the rows of the L part marked 2
\* when there is no pivoting, every row of the L part with pivoting.
PivotCandidates ==
  IF pivot = 0 THEN {i \in LPartOnEntry : pattern[i] = 2} ELSE LPartOnEntry

\* No entry of the column is divided: lu holds the entries of dense as
\* they were copied.
ColumnUndivided ==
  \A k \in pre.ucolst[pre.jcol]..(ucolst[pre.jcol + 1] - 1) :
    lu[k] = Val(pre.dense[lurow[k]])

\* C10: in pivot modes 0, 1 and 2 lucopy never succeeds with a pivot whose
\* value is zero; when every candidate pivot is zero it fails with
\* NumericallySingular, and then rperm is unchanged and no entry of the
\* column is divided.
C10_SingularDetected ==
  (Copied /\ pivot \in {0, 1, 2}) =>
    /\ Succeeded => (zpivot \in Rows /\ pre.dense[zpivot] # 0
                     /\ ~IsZero(lu[lcolst[pre.jcol] - 1]))
    /\ (PivotCandidates # {} /\ \A i \in PivotCandidates : pre.dense[i] = 0)
         => err = "NumericallySingular"
    /\ err = "NumericallySingular" =>
         (rperm = pre.rperm /\ ColumnUndivided /\ zpivot = -1)

\* lucopy failed on a zero pivot in a second or later column holding
\* several rows below the diagonal.
C10_Witness ==
  /\ Copied /\ pivot \in {0, 1, 2}
  /\ err = "NumericallySingular"
  /\ pre.jcol >= 2
  /\ Cardinality(LPartOnEntry) >= 2

\* ------------------------------------------------------------------ C5
\* The factor graph: the edges of a pivoted row v go to the pivoted rows
\* stored in the L part of the closed column rperm[v].
Children(v) ==
  {lurow[k] : k \in lcolst[rperm[v]]..(ucolst[rperm[v] + 1] - 1)}
    \cap {w \in Rows : rperm[w] # 0}

\* The positions of the U part ludfs emitted for column jcol.
EmittedU == ucolst[jcol]..(lcolst[jcol] - 1)

\* C5: after a successful SymbolicDFS(j) the emitted U part is in reverse
\* topological order: every pivoted row w stored in the L part of the closed
\* column rperm[v] of an emitted row v is emitted too, before v.
C5_ReverseTopological ==
  (Searched /\ Succeeded) =>
    \A kv \in EmittedU :
      \A w \in Children(lurow[kv]) :
        \E kw \in EmittedU : kw < kv /\ lurow[kw] = w

\* A search from two roots, one of them with a child: three rows emitted.
C5_Witness ==
  /\ Searched /\ Succeeded
  /\ \E kv \in EmittedU : Children(lurow[kv]) # {}
  /\ Cardinality({k \in 1..Len(arow) : rperm[arow[k]] # 0 /\ a[k] # 0}) >= 2

\* ------------------------------------------------------------------ C6
\* The pivoted rows holding a nonzero value in column cperm[j] of A, and the
\* unpivoted rows with an entry in it.
RootsOfA == {arow[k] : k \in {n \in 1..Len(arow) : rperm[arow[n]] # 0 /\ a[n] # 0}}
UnpivotedOfA == {arow[k] : k \in {n \in 1..Len(arow) : rperm[arow[n]] = 0}}

\* The rows reachable from S along the edges of the factor graph.
RECURSIVE ReachableFrom(_)
ReachableFrom(S) ==
  LET T == S \cup UNION {Children(v) : v \in S}
  IN  IF T = S THEN S ELSE ReachableFrom(T)

\* The positions of row i in the column ludfs stored.
StoredAt(i) == {k \in ucolst[jcol]..lastlu : lurow[k] = i}

\* C6: after a successful SymbolicDFS(j), entered with found < j and
\* dense = 0, found[i] = j holds exactly for the pivoted rows reachable from
\* a pivoted row with a nonzero value in the column of A (stored once,
\* before lcolst[j]) and for the unpivoted rows with an entry in it (stored
\* once, from lcolst[j] on); nothing else is stored and no found marker is
\* set twice.
C6_FoundExactly ==
  (Searched /\ Succeeded) =>
    LET reach == ReachableFrom(RootsOfA) IN
    /\ \A i \in Rows : pre.found[i] < jcol /\ pre.dense[i] = 0
    /\ pre.ucolst[jcol] = pre.lastlu + 1
    /\ \A i \in Rows : found[i] = jcol <=> i \in reach \cup UnpivotedOfA
    /\ \A i \in reach :
         Cardinality(StoredAt(i)) = 1 /\ \A k \in StoredAt(i) : k < lcolst[jcol]
    /\ \A i \in UnpivotedOfA :
         Cardinality(StoredAt(i)) = 1 /\ \A k \in StoredAt(i) : k >= lcolst[jcol]
    /\ \A i \in Rows \ (reach \cup UnpivotedOfA) : StoredAt(i) = {}
    /\ \A i \in Rows : nset[i] = IF found[i] = jcol THEN 1 ELSE 0

\* A row was reached only through an edge and an unpivoted row was stored.
C6_Witness ==
  /\ Searched /\ Succeeded
  /\ ReachableFrom(RootsOfA) # RootsOfA
  /\ UnpivotedOfA # {}

\* ------------------------------------------------------------------ C2
\* The largest magnitude of the L part on entry to lucopy.
MaxMagnitudeOfL == MaxOf({Magnitude(i) : i \in LPartOnEntry})

\* C2: with pivot mode 1, for every pattern and every pivot threshold, a
\* successful ColumnFinalize(j) returns a row whose magnitude in the dense
\* column is the maximum over the L part of column j on entry.
C2_PartialPivotIsMax ==
  (Copied /\ Succeeded /\ pivot = 1) =>
    /\ zpivot \in LPartOnEntry
    /\ Magnitude(zpivot) = MaxMagnitudeOfL

\* ------------------------------------------------------------------ C3
\* The row of the L part the scan leaves in diagptr: the last one, in the
\* order of storage, marked 2 in the pattern; 0 when there is none.
MarkedAt ==
  {k \in pre.lcolst[pre.jcol]..(pre.ucolst[pre.jcol + 1] - 1) :
     pattern[pre.lurow[k]] = 2}
MarkedRow == IF MarkedAt = {} THEN 0 ELSE pre.lurow[MaxOf(MarkedAt)]
MarkedLargeEnough ==
  MarkedRow # 0 /\ ThreshDen * Magnitude(MarkedRow) >= pthresh * MaxMagnitudeOfL

\* C3: with pivot mode 2, a successful ColumnFinalize(j) returns the row of
\* the L part marked 2 in the pattern when its magnitude is at least
\* pthresh times the maximum magnitude of the L part; otherwise (the marked
\* row is too small, or no row of the L part is marked) it returns a row of
\* maximum magnitude of the L part, which is not the marked row.
C3_ThresholdPivot ==
  (Copied /\ Succeeded /\ pivot = 2) =>
    IF MarkedLargeEnough
    THEN zpivot = MarkedRow
    ELSE /\ zpivot \in LPartOnEntry
         /\ Magnitude(zpivot) = MaxMagnitudeOfL
         /\ zpivot # MarkedRow

\* The fallback was taken past a marked row that is too small, in a column
\* after the first.
C3_Witness ==
  /\ Copied /\ Succeeded /\ pivot = 2
  /\ MarkedRow # 0 /\ ~MarkedLargeEnough
  /\ zpivot # MarkedRow
  /\ pre.jcol >= 2

\* ------------------------------------------------------------------ C4
\* C4: with pivot mode 0, every successful ColumnFinalize(j) returns row
\* cperm[j], and the call fails whenever row cperm[j] is not in the L part
\* of column j after compaction.
C4_DiagonalIsCperm ==
  (Copied /\ pivot = 0) =>
    /\ Succeeded => zpivot = cperm[pre.jcol]
    /\ cperm[pre.jcol] \notin (LPartOnEntry \cap RowsKept) => ~Succeeded

\* ------------------------------------------------------------------ C7
\* The out-of-pattern rows of a half-column H, those that survived the
\* compaction, and the number of rows of H strictly larger than row i.
OutOfPattern(H) == {i \in H : pattern[i] = 0}
Survivors(H) == OutOfPattern(H) \cap RowsKept
Larger(H, i) == Cardinality({h \in H : Magnitude(h) > Magnitude(i)})

\* C7 as stated: with nzcount = k > 0 and pivot mode 1 or 2, of a
\* half-column with more than k out-of-pattern rows exactly k out-of-pattern
\* rows survive a successful ColumnFinalize(j), and they are the k largest.
C7_ExactlyKSurvive ==
  (Copied /\ Succeeded /\ pivot > 0 /\ nzcount > 0) =>
    \A H \in {UPartOnEntry, LPartOnEntry} :
      Cardinality(OutOfPattern(H)) > nzcount =>
        /\ Cardinality(Survivors(H)) = nzcount
        /\ \A s \in Survivors(H) : \A t \in OutOfPattern(H) \ Survivors(H) :
             Magnitude(s) >= Magnitude(t)

\* C7: with nzcount = k > 0 and pivot mode 1 or 2, of a half-column with
\* more than k rows an out-of-pattern row survives a successful
\* ColumnFinalize(j) exactly when fewer than k rows of the half-column, in
\* the pattern or not, are strictly larger in magnitude, or when it is the
\* row chosen as the pivot.
C7_KthLargestKept ==
  (Copied /\ Succeeded /\ pivot > 0 /\ nzcount > 0) =>
    /\ Cardinality(UPartOnEntry) > nzcount =>
         \A i \in OutOfPattern(UPartOnEntry) :
           i \in RowsKept <=> Larger(UPartOnEntry, i) < nzcount
    /\ Cardinality(LPartOnEntry) > nzcount =>
         \A i \in OutOfPattern(LPartOnEntry) :
           i \in RowsKept <=> (Larger(LPartOnEntry, i) < nzcount \/ i = zpivot)

\* Of a half-column with more than k out-of-pattern rows one was dropped,
\* and of one more than k survived (rows of equal magnitude).
C7_Witness ==
  /\ Copied /\ Succeeded /\ pivot > 0 /\ nzcount > 0
  /\ \E H \in {UPartOnEntry, LPartOnEntry} :
       /\ Cardinality(OutOfPattern(H)) > nzcount
       /\ OutOfPattern(H) \ RowsKept # {}
  /\ \E H \in {UPartOnEntry, LPartOnEntry} :
       /\ Cardinality(OutOfPattern(H)) > nzcount
       /\ Cardinality(Survivors(H)) > nzcount

====
